---- MODULE Spec2Model ----
(***************************************************************************)
(* Model of the TCOW data-loader assembly (models/hide_seek/tcow/data/     *)
(* data.py) and of the representative-result aggregation                   *)
(* (models/hide_seek/tcow/eval/pick_represent.py).                         *)
(*                                                                         *)
(* Strings that the code inspects (paths, guide patterns, clip names,      *)
(* metric names) are sequences of one-character strings, so that `in`,     *)
(* endswith, lower, split and sorted are computed character by character.  *)
(* Python dicts are functions whose domain is the set of keys.  A Python   *)
(* exception ends the running function: pc becomes "raised" and `raised`   *)
(* names the exception type.                                                *)
(***************************************************************************)
EXTENDS Integers, Sequences, FiniteSets, TLC

VARIABLES
    flow,                    \* which entry point runs: "train", "test", "summary"
    pc,                      \* position in the running function
    raised,                  \* exception that ended it, "none" otherwise
    log,                     \* messages given to logger.error / logger.warning
    args,                    \* args (train flow) or test_args (test flow)
    actual_data_paths,       \* args.data_path
    idx,                     \* position of the for loop over actual_data_paths
    shuffle,
    \* create_train_val_data_loaders
    train_dset_sources, val_aug_dset_sources, val_noaug_dset_sources,
    dset_args_sources,
    train_dataset, val_aug_dataset, val_noaug_dataset,
    train_loader, val_aug_loader, val_noaug_loader,
    \* create_test_data_loader
    train_dset_args_sources, test_dataset_list, test_dset_args_sources,
    test_dataset, test_loader,
    \* construct_summary
    actual_guide_paths,      \* the guide files found
    actual_testres_paths,    \* the test result folders found
    gi, ti,                  \* guides done, result folders done for this guide
    lines, agg_mask, num_examples,
    final_weighted_metrics, final_unweighted_metrics,
    summary,                 \* the rows of the summary table
    out_dirs, out_files,     \* the folders and files under my_args.output_dir
    \* merge_cross_dataset_guides
    new_summary, model_pats,
    mg, mp,                  \* guides done, model patterns done for this guide
    sel_rows, merged_metrics,
    \* main
    autosmr,                 \* the files _autosmr_<n>.csv of my_args.output_dir
    summary_idx, summary_fp,
    runs                     \* runs of main completed on this output directory

commonVars == <<flow, pc, raised, log, args, actual_data_paths, idx, shuffle>>
trainVars == <<train_dset_sources, val_aug_dset_sources, val_noaug_dset_sources,
               dset_args_sources, train_dataset, val_aug_dataset,
               val_noaug_dataset, train_loader, val_aug_loader, val_noaug_loader>>
testVars == <<train_dset_args_sources, test_dataset_list, test_dset_args_sources,
              test_dataset, test_loader>>
sumVars == <<actual_guide_paths, actual_testres_paths, gi, ti, lines, agg_mask,
             num_examples, final_weighted_metrics, final_unweighted_metrics,
             summary, out_dirs, out_files>>
mergeVars == <<new_summary, model_pats, mg, mp, sel_rows, merged_metrics>>
mainVars == <<autosmr, summary_idx, summary_fp, runs>>
vars == <<commonVars, trainVars, testVars, sumVars, mergeVars, mainVars>>

---------------------------------------------------------------------------
(* Bounds of the model. *)

\* Longest args.data_path list.
MaxPaths == 2
\* Most guide files and most test result folders of a run.
MaxGuides == 2
MaxTestres == 2
\* Runs of main on one output directory.
MaxRuns == 2

---------------------------------------------------------------------------
(* Strings. *)

\* str.lower(), on ASCII letters.
UpperToLower ==
    [A |-> "a", B |-> "b", C |-> "c", D |-> "d", E |-> "e", F |-> "f",
     G |-> "g", H |-> "h", I |-> "i", J |-> "j", K |-> "k", L |-> "l",
     M |-> "m", N |-> "n", O |-> "o", P |-> "p", Q |-> "q", R |-> "r",
     S |-> "s", T |-> "t", U |-> "u", V |-> "v", W |-> "w", X |-> "x",
     Y |-> "y", Z |-> "z"]

LowerChar(c) == IF c \in DOMAIN UpperToLower THEN UpperToLower[c] ELSE c

Lower(s) == [k \in 1..Len(s) |-> LowerChar(s[k])]

\* `sub in s`
Contains(sub, s) ==
    \E k \in 0..(Len(s) - Len(sub)) : SubSeq(s, k + 1, k + Len(sub)) = sub

\* s.endswith(suf)
EndsWith(s, suf) ==
    /\ Len(suf) <= Len(s)
    /\ SubSeq(s, Len(s) - Len(suf) + 1, Len(s)) = suf

\* dict helpers: d[k] = v, del d[k]
\* An assignment that keeps the value a key already has.
PutKeepsFirst(d, k, v) ==
    [x \in (DOMAIN d) \cup {k} |-> IF x \in DOMAIN d THEN d[x] ELSE v]
Put(d, k, v) == [x \in (DOMAIN d) \cup {k} |-> IF x = k THEN v ELSE d[x]]
Del(d, k) == [x \in (DOMAIN d) \ {k} |-> d[x]]
EmptyDict == [x \in {} |-> TRUE]

s_kubcon == <<"k", "u", "b", "c", "o", "n">>
s_kubbench == <<"k", "u", "b", "b", "e", "n", "c", "h">>
s_youtube_vos == <<"y", "o", "u", "t", "u", "b", "e", "-", "v", "o", "s">>
s_plugin == <<"p", "l", "u", "g", "i", "n">>
s_mp4 == <<".", "m", "p", "4">>
s_avi == <<".", "a", "v", "i">>
s_gif == <<".", "g", "i", "f">>
s_webm == <<".", "w", "e", "b", "m">>
s_csv == <<".", "c", "s", "v">>

---------------------------------------------------------------------------
(* Source classification, data.py:29-43. *)

\* The mutant: the path is not lower-cased.
IsKubricSourceCaseSensitive(cur_data_path) ==
    \/ Contains(s_kubcon, cur_data_path)
    \/ Contains(s_kubbench, cur_data_path)

_is_kubric_source(cur_data_path) ==
    \/ Contains(s_kubcon, Lower(cur_data_path))
    \/ Contains(s_kubbench, Lower(cur_data_path))

_is_ytvos_source(cur_data_path) ==
    Contains(s_youtube_vos, Lower(cur_data_path))

_is_plugin_source(cur_data_path) ==
    \/ Contains(s_plugin, Lower(cur_data_path))
    \/ EndsWith(Lower(cur_data_path), s_mp4)
    \/ EndsWith(Lower(cur_data_path), s_avi)
    \/ EndsWith(Lower(cur_data_path), s_gif)
    \/ EndsWith(Lower(cur_data_path), s_webm)

---------------------------------------------------------------------------
(* Values. *)

\* A local variable that was never assigned, and Python's None.
Unbound == [kind |-> "unbound"]
None == [kind |-> "None"]

\* The data paths the runs draw from.
p_kubcon == <<"/", "k", "u", "b", "c", "o", "n">>
p_KubBench_ytvos_mp4 == <<"K", "u", "b", "B", "e", "n", "c", "h", "/", "y", "o", "u", "t", "u", "b", "e", "-", "v", "o", "s", ".", "m", "p", "4">>
p_ytvos_dir == <<"/", "y", "o", "u", "t", "u", "b", "e", "-", "v", "o", "s">>
p_plugin == <<"p", "l", "u", "g", "i", "n", "_", "y", "t", "v", "o", "s">>
p_clip_MP4 == <<"a", ".", "M", "P", "4">>
p_clip_avi == <<"a", ".", "a", "v", "i">>
p_clip_GIF == <<"a", ".", "G", "I", "F">>
p_clip_webm == <<"a", ".", "w", "e", "b", "m">>
p_unknown == <<".", "m", "p", "4", "/", "y", "t", "v", "o", "s">>
p_ytvos_plugin_avi == <<"y", "o", "u", "t", "u", "b", "e", "-", "v", "o", "s", "/", "p", "l", "u", "g", "i", "n", ".", "a", "v", "i">>

PathSet == {p_kubcon, p_KubBench_ytvos_mp4, p_ytvos_dir, p_plugin, p_clip_MP4,
            p_clip_avi, p_clip_GIF, p_clip_webm, p_unknown, p_ytvos_plugin_avi}

PathLists == UNION {[1..n -> PathSet] : n \in 0..MaxPaths}

\* The command-line options of a training run (args.py is outside the
\* model: the values are representative, fractions are in hundredths).
TrainArgsBase ==
    [data_loop_only |-> FALSE, which_seeker |-> "mask_track_2d",
     batch_size |-> 4, num_workers |-> 2,
     do_val_aug |-> TRUE, do_val_noaug |-> TRUE,
     num_frames |-> 24, frame_height |-> 240, frame_width |-> 320,
     kubric_frame_rate |-> 12, kubric_frame_stride |-> 2,
     kubric_max_delay |-> 0, use_data_frac |-> 100,
     augs_2d |-> TRUE, augs_3d |-> TRUE, num_queries |-> 3,
     seeker_query_time |-> 0, force_perturb_idx |-> -1,
     force_view_idx |-> -1, single_scene |-> FALSE, fake_data |-> FALSE,
     augs_version |-> 4, front_occl_thres |-> 70, outer_cont_thres |-> 75,
     kubric_reverse_prob |-> 5, kubric_palindrome_prob |-> 5,
     kubric_degrade |-> "none", annot_visible_pxl_only |-> TRUE,
     ytvos_frame_rate |-> 6, ytvos_frame_stride |-> 1]

WhichSeekers == {"point_track_3d", "mask_track_2d", "other"}

TrainArgsSet ==
    {[TrainArgsBase EXCEPT !.data_loop_only = dl, !.which_seeker = ws,
                           !.do_val_aug = va, !.do_val_noaug = vn] :
        dl \in BOOLEAN, ws \in WhichSeekers, va \in BOOLEAN, vn \in BOOLEAN}

---------------------------------------------------------------------------
(* create_kubric_train_val_data_loaders, data.py:126-170.                  *)
(* The result is [raised |-> ...] or the returned 4-tuple as a record.     *)

KubricTrainDsetArgs(a, query_size, load_3d) ==
    [num_frames |-> a.num_frames, frame_height |-> a.frame_height,
     frame_width |-> a.frame_width, frame_rate |-> a.kubric_frame_rate,
     frame_stride |-> a.kubric_frame_stride, max_delay |-> a.kubric_max_delay,
     use_data_frac |-> a.use_data_frac, augs_2d |-> a.augs_2d,
     augs_3d |-> a.augs_3d, num_queries |-> a.num_queries,
     query_time |-> a.seeker_query_time, query_size |-> query_size,
     load_3d |-> load_3d, max_objects |-> 36,
     force_perturb_idx |-> a.force_perturb_idx,
     force_view_idx |-> a.force_view_idx, single_scene |-> a.single_scene,
     fake_data |-> a.fake_data, augs_version |-> a.augs_version,
     front_occl_thres |-> a.front_occl_thres,
     outer_cont_thres |-> a.outer_cont_thres,
     reverse_prob |-> a.kubric_reverse_prob,
     palindrome_prob |-> a.kubric_palindrome_prob,
     degrade |-> a.kubric_degrade,
     annot_visible_pxl_only |-> a.annot_visible_pxl_only]

\* A dataset object: its class, its constructor arguments, and the loop
\* iteration that constructed it (the object's identity).
Dataset(kind, cur_data_path, phase, dset_args, at) ==
    [kind |-> kind, path |-> cur_data_path, phase |-> phase,
     dset_args |-> dset_args, at |-> at]

create_kubric_train_val_data_loaders(a, cur_data_path, at) ==
    IF a.which_seeker \notin {"point_track_3d", "mask_track_2d"}
    THEN \* query_size is read at line 148 without having been assigned
         [raised |-> "UnboundLocalError"]
    ELSE LET query_size == IF a.which_seeker = "point_track_3d"
                           THEN "point" ELSE "thing"
             load_3d == (a.which_seeker = "point_track_3d")
             dset_args == KubricTrainDsetArgs(a, query_size, load_3d)
         IN [raised |-> "none",
             train_dataset |->
                 Dataset("KubricQueryDataset", cur_data_path, "train", dset_args, at),
             val_aug_dataset |->
                 IF a.do_val_aug
                 THEN Dataset("KubricQueryDataset", cur_data_path, "val_aug",
                              dset_args, at)
                 ELSE None,
             val_noaug_dataset |->
                 IF a.do_val_noaug
                 THEN Dataset("KubricQueryDataset", cur_data_path, "val_noaug",
                              dset_args, at)
                 ELSE None,
             dset_args |-> dset_args]

(* create_youtube_vos_train_loader, data.py:173-190. *)
create_youtube_vos_train_loader(a, cur_data_path, at) ==
    IF a.which_seeker # "mask_track_2d"
    THEN [raised |-> "AssertionError"]
    ELSE LET dset_args ==
                 [num_frames |-> a.num_frames, frame_height |-> a.frame_height,
                  frame_width |-> a.frame_width, frame_rate |-> a.ytvos_frame_rate,
                  frame_stride |-> a.ytvos_frame_stride,
                  use_data_frac |-> a.use_data_frac, augs_2d |-> a.augs_2d,
                  query_time |-> a.seeker_query_time,
                  augs_version |-> a.augs_version]
         IN [raised |-> "none",
             train_dataset |->
                 Dataset("YoutubeVOSDataset", cur_data_path, "train", dset_args, at),
             dset_args |-> dset_args]

MixedDataset(sources, chunk_size) ==
    [kind |-> "MixedDataset", sources |-> sources, chunk_size |-> chunk_size]

DataLoader(dataset, batch_size, num_workers, shuf, drop_last) ==
    [kind |-> "DataLoader", dataset |-> dataset, batch_size |-> batch_size,
     num_workers |-> num_workers, shuffle |-> shuf, drop_last |-> drop_last]

---------------------------------------------------------------------------
(* create_train_val_data_loaders, data.py:46-123. *)

\* An exception leaves the function: nothing else changes.
Raise(exc) ==
    /\ pc' = "raised"
    /\ raised' = exc

\* The dispatch of data.py:60-78 on one path: the exception raised, or the
\* source tag with what the builder returned.
\* The mutant: a user-clip path is handed to the web-video builder.
TrainDispatchPluginAsYtvos(a, cur_data_path, at) ==
    IF _is_kubric_source(cur_data_path)
    THEN [tag |-> "kubric",
          built |-> create_kubric_train_val_data_loaders(a, cur_data_path, at)]
    ELSE IF _is_ytvos_source(cur_data_path) \/ _is_plugin_source(cur_data_path)
    THEN [tag |-> "ytvos",
          built |-> create_youtube_vos_train_loader(a, cur_data_path, at)]
    ELSE [tag |-> "none", built |-> [raised |-> "ValueError"]]

TrainDispatch(a, cur_data_path, at) ==
    IF _is_kubric_source(cur_data_path)
    THEN [tag |-> "kubric",
          built |-> create_kubric_train_val_data_loaders(a, cur_data_path, at)]
    ELSE IF _is_ytvos_source(cur_data_path)
    THEN [tag |-> "ytvos",
          built |-> create_youtube_vos_train_loader(a, cur_data_path, at)]
    ELSE IF _is_plugin_source(cur_data_path)
    THEN [tag |-> "none", built |-> [raised |-> "NotImplementedError"]]
    ELSE [tag |-> "none", built |-> [raised |-> "ValueError"]]

\* One iteration of the loop over actual_data_paths, data.py:59-78.
TrainPath ==
    /\ UNCHANGED mainVars
    /\ flow = "train"
    /\ pc = "loop"
    /\ idx < Len(actual_data_paths)
    /\ LET d == TrainDispatch(args, actual_data_paths[idx + 1], idx + 1)
           r == d.built
       IN
       IF r.raised # "none"
       THEN /\ Raise(r.raised)
            /\ UNCHANGED <<idx, trainVars>>
       ELSE IF d.tag = "kubric"
       THEN /\ train_dataset' = r.train_dataset
            /\ val_aug_dataset' = r.val_aug_dataset
            /\ val_noaug_dataset' = r.val_noaug_dataset
            /\ train_dset_sources' = Put(train_dset_sources, "kubric", r.train_dataset)
            /\ val_aug_dset_sources' =
                   Put(val_aug_dset_sources, "kubric", r.val_aug_dataset)
            /\ val_noaug_dset_sources' =
                   Put(val_noaug_dset_sources, "kubric", r.val_noaug_dataset)
            /\ dset_args_sources' = Put(dset_args_sources, "kubric", r.dset_args)
            /\ idx' = idx + 1
            /\ UNCHANGED <<pc, raised, train_loader, val_aug_loader, val_noaug_loader>>
       ELSE /\ train_dataset' = r.train_dataset
            /\ train_dset_sources' = Put(train_dset_sources, "ytvos", r.train_dataset)
            /\ dset_args_sources' = Put(dset_args_sources, "ytvos", r.dset_args)
            /\ idx' = idx + 1
            /\ UNCHANGED <<pc, raised, val_aug_dataset, val_noaug_dataset,
                           val_aug_dset_sources, val_noaug_dset_sources,
                           train_loader, val_aug_loader, val_noaug_loader>>
    /\ UNCHANGED <<flow, log, args, actual_data_paths, shuffle, testVars, sumVars, mergeVars>>

\* The shuffle flag after data.py:80-106.
\* The mutant: a mix keeps the caller's request.
TrainShuffleKeepsRequest == shuffle

TrainShuffle ==
    IF Cardinality(DOMAIN train_dset_sources) > 1
           \/ Cardinality(DOMAIN val_aug_dset_sources) > 1
    THEN FALSE
    ELSE shuffle

\* final_train_dataset, data.py:80-88 (with at least one training dataset).
\* The mutant: the chunk size is the number of workers.
FinalTrainDatasetChunkWorkers ==
    IF Cardinality(DOMAIN train_dset_sources) = 1
    THEN train_dataset
    ELSE MixedDataset(train_dset_sources, args.num_workers)

FinalTrainDataset ==
    IF Cardinality(DOMAIN train_dset_sources) = 1
    THEN train_dataset
    ELSE MixedDataset(train_dset_sources, args.batch_size)

\* final_val_aug_dataset and final_val_noaug_dataset, data.py:93-109: they
\* stay unassigned when no source added a validation dataset.
FinalValAugDataset ==
    IF Cardinality(DOMAIN val_aug_dset_sources) = 1
    THEN val_aug_dataset
    ELSE IF Cardinality(DOMAIN val_aug_dset_sources) > 1
    THEN IF args.do_val_aug
         THEN MixedDataset(val_aug_dset_sources, args.batch_size)
         ELSE None
    ELSE Unbound

FinalValNoaugDataset ==
    IF Cardinality(DOMAIN val_aug_dset_sources) = 1
    THEN val_noaug_dataset
    ELSE IF Cardinality(DOMAIN val_aug_dset_sources) > 1
    THEN IF args.do_val_noaug
         THEN MixedDataset(val_noaug_dset_sources, args.batch_size)
         ELSE None
    ELSE Unbound

\* The code after the loop, data.py:80-123.
TrainAssemble ==
    /\ UNCHANGED mainVars
    /\ flow = "train"
    /\ pc = "loop"
    /\ idx = Len(actual_data_paths)
    /\ IF Cardinality(DOMAIN train_dset_sources) = 0
       THEN /\ Raise("RuntimeError")
            /\ UNCHANGED <<log, shuffle, train_loader, val_aug_loader, val_noaug_loader>>
       ELSE /\ log' = IF Cardinality(DOMAIN val_aug_dset_sources) = 0
                         /\ (args.do_val_aug \/ args.do_val_noaug)
                      THEN log \cup {"No validation datasets were successfully instantiated."}
                      ELSE log
            /\ shuffle' = TrainShuffle
            /\ train_loader' = DataLoader(FinalTrainDataset, args.batch_size,
                                          args.num_workers, TrainShuffle, TRUE)
            /\ IF args.do_val_aug /\ FinalValAugDataset = Unbound
               THEN \* final_val_aug_dataset is read at line 115 unassigned
                    /\ Raise("UnboundLocalError")
                    /\ UNCHANGED <<val_aug_loader, val_noaug_loader>>
               ELSE /\ val_aug_loader' =
                        IF args.do_val_aug
                        THEN DataLoader(FinalValAugDataset, args.batch_size,
                                        args.num_workers, TrainShuffle, TRUE)
                        ELSE None
                    /\ IF args.do_val_noaug /\ FinalValNoaugDataset = Unbound
                       THEN \* final_val_noaug_dataset is read at line 119 unassigned
                            /\ Raise("UnboundLocalError")
                            /\ UNCHANGED val_noaug_loader
                       ELSE /\ val_noaug_loader' =
                                IF args.do_val_noaug
                                THEN DataLoader(FinalValNoaugDataset, args.batch_size,
                                                args.num_workers, TrainShuffle, TRUE)
                                ELSE None
                            /\ pc' = "returned"
                            /\ UNCHANGED raised
    /\ UNCHANGED <<flow, args, actual_data_paths, idx, train_dset_sources,
                   val_aug_dset_sources, val_noaug_dset_sources, dset_args_sources,
                   train_dataset, val_aug_dataset, val_noaug_dataset, testVars,
                   sumVars, mergeVars>>

---------------------------------------------------------------------------
(* create_test_data_loader and its three builders, data.py:193-336. *)

\* Options of a test run (representative values).
TestArgsBase ==
    [batch_size |-> 1, num_workers |-> 2, single_scene |-> TRUE,
     fake_data |-> TRUE, use_data_frac |-> 50, num_queries |-> 1,
     force_perturb_idx |-> 3, force_view_idx |-> 2, kubric_degrade |-> "smc",
     plugin_frame_rate |-> 30, plugin_prefer_frame_stride |-> 3,
     annots_must_exist |-> FALSE, center_crop |-> TRUE]

\* The train configurations a checkpoint may carry.
KubricCfg == KubricTrainDsetArgs(TrainArgsBase, "thing", FALSE)
YtvosCfg == create_youtube_vos_train_loader(TrainArgsBase, <<>>, 0).dset_args
\* From an older run: no augs_version, and the deprecated load_full_segm.
KubricCfgOld == Put(Del(KubricCfg, "augs_version"), "load_full_segm", TRUE)
YtvosCfgOld == Del(YtvosCfg, "augs_version")

TrainDsetArgsSourcesSet ==
    {[kubric |-> KubricCfg, ytvos |-> YtvosCfg],
     [kubric |-> KubricCfg],
     [kubric |-> KubricCfgOld, ytvos |-> YtvosCfgOld],
     \* the old format: the synthetic-physics configuration itself
     KubricCfg,
     KubricCfgOld}

\* The compatibility patches of data.py:256-260.
KubricFixOutdated(test_dset_args) ==
    LET patched == IF "augs_version" \notin DOMAIN test_dset_args
                   THEN Put(test_dset_args, "augs_version", 1)
                   ELSE test_dset_args
    IN IF "load_full_segm" \in DOMAIN patched
       THEN Del(patched, "load_full_segm")
       ELSE patched

\* The overrides of data.py:267-279, in the order of the assignments.
\* The mutant: the frame rate is overridden too.
KubricOverridesFrameRate(test_args) ==
    <<<<"single_scene", test_args.single_scene>>,
      <<"fake_data", test_args.fake_data>>,
      <<"use_data_frac", test_args.use_data_frac>>,
      <<"augs_2d", FALSE>>,
      <<"augs_3d", FALSE>>,
      <<"num_queries", test_args.num_queries>>,
      <<"force_perturb_idx", test_args.force_perturb_idx>>,
      <<"force_view_idx", test_args.force_view_idx>>,
      <<"degrade", test_args.kubric_degrade>>,
      <<"annot_visible_pxl_only", FALSE>>,
      <<"frame_rate", test_args.plugin_frame_rate>>>>

KubricOverrides(test_args) ==
    <<<<"single_scene", test_args.single_scene>>,
      <<"fake_data", test_args.fake_data>>,
      <<"use_data_frac", test_args.use_data_frac>>,
      <<"augs_2d", FALSE>>,
      <<"augs_3d", FALSE>>,
      <<"num_queries", test_args.num_queries>>,
      <<"force_perturb_idx", test_args.force_perturb_idx>>,
      <<"force_view_idx", test_args.force_view_idx>>,
      <<"degrade", test_args.kubric_degrade>>,
      <<"annot_visible_pxl_only", FALSE>>>>

RECURSIVE PutAll(_, _)
PutAll(d, kvs) ==
    IF kvs = <<>> THEN d
    ELSE PutAll(Put(d, Head(kvs)[1], Head(kvs)[2]), Tail(kvs))

\* data.py:252-284; `sources` is train_dset_args_sources.
KubricTestDsetArgs(test_args, sources) ==
    PutAll(KubricFixOutdated(sources["kubric"]), KubricOverrides(test_args))

create_kubric_test_data_loader(test_args, sources, cur_data_path, at) ==
    IF "kubric" \notin DOMAIN sources
    THEN [raised |-> "KeyError"]
    ELSE LET test_dset_args == KubricTestDsetArgs(test_args, sources)
         IN [raised |-> "none",
             test_dataset |->
                 Dataset("KubricQueryDataset", cur_data_path, "test", test_dset_args, at),
             test_dset_args |-> test_dset_args]

\* data.py:287-302.
create_youtube_vos_test_loader(test_args, sources, cur_data_path, at) ==
    IF "ytvos" \notin DOMAIN sources
    THEN [raised |-> "KeyError"]
    ELSE LET copied == sources["ytvos"]
             patched == IF "augs_version" \notin DOMAIN copied
                        THEN Put(copied, "augs_version", 1)
                        ELSE copied
             test_dset_args ==
                 PutAll(patched, <<<<"use_data_frac", test_args.use_data_frac>>,
                                   <<"augs_2d", FALSE>>>>)
         IN [raised |-> "none",
             test_dataset |->
                 Dataset("YoutubeVOSDataset", cur_data_path, "test", test_dset_args, at),
             test_dset_args |-> test_dset_args]

\* The keys of train_dset_args_sources['kubric'] that data.py:315-322 reads.
PluginReadsFromKubric ==
    {"num_frames", "frame_height", "frame_width", "query_time", "augs_version"}

\* data.py:305-336.  The configuration starts empty, so line 310 always
\* sets augs_version to 1; line 322 then reads it from the train
\* configuration.
create_plugin_test_data_loader(test_args, sources, cur_data_path, at) ==
    IF "kubric" \notin DOMAIN sources
    THEN [raised |-> "KeyError"]
    ELSE IF ~(PluginReadsFromKubric \subseteq DOMAIN sources["kubric"])
    THEN [raised |-> "KeyError"]
    ELSE LET k == sources["kubric"]
             test_dset_args ==
                 PutAll(Put(EmptyDict, "augs_version", 1),
                        <<<<"num_clip_frames", k["num_frames"]>>,
                          <<"frame_height", k["frame_height"]>>,
                          <<"frame_width", k["frame_width"]>>,
                          <<"frame_rate", test_args.plugin_frame_rate>>,
                          <<"prefer_frame_stride", test_args.plugin_prefer_frame_stride>>,
                          <<"multiplicity", 12>>,
                          <<"query_time", k["query_time"]>>,
                          <<"augs_version", k["augs_version"]>>,
                          <<"annots_must_exist", test_args.annots_must_exist>>,
                          <<"prefetch", TRUE>>,
                          <<"center_crop", test_args.center_crop>>>>)
         IN [raised |-> "none",
             test_dataset |->
                 Dataset("PluginVideoDataset", cur_data_path, "test", test_dset_args, at),
             test_dset_args |-> test_dset_args]

\* data.py:211-212: a mapping without the 'kubric' key is taken to be the
\* old format and wrapped.
UpgradeSources(sources) ==
    IF "kubric" \notin DOMAIN sources THEN [kubric |-> sources] ELSE sources

\* The dispatch of data.py:214-236 on one path.
TestDispatch(test_args, sources, cur_data_path, at) ==
    IF _is_kubric_source(cur_data_path)
    THEN [tag |-> "kubric",
          built |-> create_kubric_test_data_loader(test_args, sources, cur_data_path, at)]
    ELSE IF _is_ytvos_source(cur_data_path)
    THEN [tag |-> "ytvos",
          built |-> create_youtube_vos_test_loader(test_args, sources, cur_data_path, at)]
    ELSE IF _is_plugin_source(cur_data_path)
    THEN [tag |-> "plugin",
          built |-> create_plugin_test_data_loader(test_args, sources, cur_data_path, at)]
    ELSE [tag |-> "none", built |-> [raised |-> "ValueError"]]

\* One iteration of the loop over actual_data_paths, data.py:208-236.
TestPath ==
    /\ UNCHANGED mainVars
    /\ flow = "test"
    /\ pc = "loop"
    /\ idx < Len(actual_data_paths)
    /\ LET sources == UpgradeSources(train_dset_args_sources)
           d == TestDispatch(args, sources, actual_data_paths[idx + 1], idx + 1)
           r == d.built
       IN /\ train_dset_args_sources' = sources
          /\ IF r.raised # "none"
             THEN /\ Raise(r.raised)
                  /\ UNCHANGED <<idx, test_dataset_list, test_dset_args_sources,
                                 test_dataset>>
             ELSE /\ test_dataset' = r.test_dataset
                  /\ test_dataset_list' = Append(test_dataset_list, r.test_dataset)
                  /\ test_dset_args_sources' =
                         Put(test_dset_args_sources, d.tag, r.test_dset_args)
                  /\ idx' = idx + 1
                  /\ UNCHANGED <<pc, raised>>
    /\ UNCHANGED <<flow, log, args, actual_data_paths, shuffle, test_loader, trainVars,
                   sumVars, mergeVars>>

\* A concatenation that holds the last dataset of the list only.
ConcatDatasetLastOnly(datasets) ==
    [kind |-> "ConcatDataset", datasets |-> <<datasets[Len(datasets)]>>]

\* torch.utils.data.ConcatDataset over a list of datasets.
ConcatDataset(datasets) == [kind |-> "ConcatDataset", datasets |-> datasets]

\* The code after the loop, data.py:238-249.  ConcatDataset refuses an
\* empty list (its constructor asserts that there is a dataset).
TestAssemble ==
    /\ UNCHANGED mainVars
    /\ flow = "test"
    /\ pc = "loop"
    /\ idx = Len(actual_data_paths)
    /\ IF Len(test_dataset_list) = 0
       THEN /\ Raise("AssertionError")
            /\ UNCHANGED <<shuffle, test_loader>>
       ELSE /\ shuffle' = FALSE
            /\ test_loader' =
                   DataLoader(IF Len(test_dataset_list) = 1
                              THEN test_dataset
                              ELSE ConcatDataset(test_dataset_list),
                              args.batch_size, args.num_workers, FALSE, FALSE)
            /\ pc' = "returned"
            /\ UNCHANGED raised
    /\ UNCHANGED <<flow, log, args, actual_data_paths, idx, train_dset_args_sources,
                   test_dataset_list, test_dset_args_sources, test_dataset, trainVars,
                   sumVars, mergeVars>>

---------------------------------------------------------------------------
(* More strings: split, join, sorted. *)

\* The characters of the model in ASCII order.
CharOrder == <<",", ".", "1", "2", "4", "8", "9", "_", "a", "b", "c", "d", "e",
               "g", "i", "k", "m", "n", "o", "p", "s", "t", "u", "v", "w", "x",
               "z">>

Ord(c) == CHOOSE k \in 1..Len(CharOrder) : CharOrder[k] = c

\* a < b for Python strings.
RECURSIVE StrLess(_, _)
StrLess(a, b) ==
    IF b = <<>> THEN FALSE
    ELSE IF a = <<>> THEN TRUE
    ELSE IF Head(a) = Head(b) THEN StrLess(Tail(a), Tail(b))
    ELSE Ord(Head(a)) < Ord(Head(b))

\* sorted(list of strings)
RECURSIVE InsertSorted(_, _)
InsertSorted(x, sorted_list) ==
    IF sorted_list = <<>> THEN <<x>>
    ELSE IF StrLess(Head(sorted_list), x)
    THEN <<Head(sorted_list)>> \o InsertSorted(x, Tail(sorted_list))
    ELSE <<x>> \o sorted_list

RECURSIVE Sorted(_)
Sorted(list) ==
    IF list = <<>> THEN <<>> ELSE InsertSorted(Head(list), Sorted(Tail(list)))

\* s.split(sep)
RECURSIVE Split(_, _)
Split(s, sep) ==
    IF ~Contains(sep, s) THEN <<s>>
    ELSE LET k == CHOOSE j \in 0..(Len(s) - Len(sep)) :
                      /\ SubSeq(s, j + 1, j + Len(sep)) = sep
                      /\ \A h \in 0..(j - 1) : SubSeq(s, h + 1, h + Len(sep)) # sep
         IN <<SubSeq(s, 1, k)>> \o Split(SubSeq(s, k + Len(sep) + 1, Len(s)), sep)

---------------------------------------------------------------------------
(* pick_represent.py: the inputs of a run. *)

\* Metric values are in hundredths: -100 is -1.0, 42 is 0.42, 500 is 5.
MeanFloor == -100

m_count_valid == <<"c", "o", "u", "n", "t", "_", "v", "a", "l", "i", "d">>
m_mean_iou == <<"m", "e", "a", "n", "_", "i", "o", "u">>
m_std_iou == <<"s", "t", "d", "_", "i", "o", "u">>
m_mean_count == <<"m", "e", "a", "n", "_", "c", "o", "u", "n", "t">>

\* What metrics.calculate_*_averages_dataframe may return (the metrics
\* module is outside the model: its result is an input).
Metrics1 == [k \in {m_count_valid, m_mean_iou, m_std_iou} |->
                IF k = m_count_valid THEN 500 ELSE IF k = m_mean_iou THEN 42 ELSE 10]
Metrics2 == [k \in {m_count_valid, m_mean_iou, m_mean_count} |->
                IF k = m_count_valid THEN 0 ELSE IF k = m_mean_iou THEN -100 ELSE -50]
Metrics3 == [k \in {m_count_valid, m_mean_iou, m_std_iou} |->
                IF k = m_count_valid THEN -100 ELSE IF k = m_mean_iou THEN -99 ELSE 300]

Row(scene_dn, friendly_short_name) ==
    [scene_dn |-> scene_dn, friendly_short_name |-> friendly_short_name]

\* The test result folders: the folder's name, whether it holds
\* itemized_results.csv, the table, the files under visuals/, and what the
\* metrics module returns for a selection of the table.
ResultFolder(dn, has_csv, has_scene, rows, visuals, weighted, unweighted) ==
    [dn |-> dn, has_csv |-> has_csv, has_scene |-> has_scene, rows |-> rows,
     visuals |-> visuals, weighted |-> weighted, unweighted |-> unweighted]

Res1 == ResultFolder(<<"t", "e", "s", "t", "_", "v", "1", "_", "d", "8">>, TRUE, TRUE,
                     <<Row(<<"b", "1">>, <<"c", "x">>), Row(<<"x">>, <<"a", "x">>), Row(<<"b", "1">>, <<"x">>)>>,
                     {<<"a", "x", "_", "i", "n", ".", "w", "e", "b", "m">>, <<"c", "x", "_", "o", "u", "t", "_", "o", "c", ".", "w", "e", "b", "m">>, <<"a", "x", ".", "p", "n", "g">>},
                     Metrics1, Metrics2)
Res2 == ResultFolder(<<"t", "e", "s", "t", "_", "v", "1", "_", "p", "b", "_", "d", "9">>, TRUE, TRUE,
                     <<Row(<<"x">>, <<"b", ",", "c">>)>>,
                     {<<"b", ",", "c", "_", "o", "u", "t", "_", "s", "n", ".", "w", "e", "b", "m">>},
                     Metrics2, Metrics3)
Res3 == ResultFolder(<<"t", "e", "s", "t", "_", "v", "2", "_", "d", "8">>, FALSE, FALSE, <<>>, {}, Metrics1, Metrics1)
Res4 == ResultFolder(<<"t", "e", "s", "t", "_", "v", "1", "1", "_", "d", "8">>, TRUE, FALSE,
                     <<Row(<<>>, <<"b", ",", "c">>), Row(<<>>, <<"x">>)>>,
                     {},
                     Metrics3, Metrics1)

ResSet == {Res1, Res2, Res3, Res4}

\* The guide files: the file's name and its lines, comments stripped, in
\* the order of the file.
Guide(fn, file_lines) == [fn |-> fn, file_lines |-> file_lines]

Guide1 == Guide(<<"g", "a", ".", "t", "x", "t">>, <<<<"b", ",", "c">>, <<"a">>>>)
Guide2 == Guide(<<"g", "e", ".", "t", "x", "t">>, <<>>)
Guide3 == Guide(<<"k", "u", "b", "c", "o", "n", "_", "m", "_", "z", ".", "t", "x", "t">>, <<<<"z", "z">>, <<"b", ",">>>>)

GuideSet == {Guide1, Guide2, Guide3}

\* get_args, pick_represent.py:28-51 (the defaults).
MyArgs ==
    [video_suffix |-> <<<<"i", "n", ".", "w", "e", "b", "m">>, <<"o", "u", "t", "_", "o", "c", ".", "w", "e", "b", "m">>, <<"o", "u", "t", "_", "s", "n", ".", "w", "e", "b", "m">>>>,
     no_video_copy_for |-> <<s_kubcon>>,
     write_summary |-> TRUE]

\* The notes file, as main reads it (pick_represent.py:70-75).
ModelNotes == <<[pat |-> <<"v", "1", "_">>, note |-> <<"n", "1">>]>>

---------------------------------------------------------------------------
(* construct_summary, pick_represent.py:97-222. *)

\* str(pathlib.Path(fp).name).split('.')[0]
GuideName(guide) == Split(guide.fn, <<".">>)[1]

\* The mask of one guide line over one row, pick_represent.py:127-134.
CurMask(cand_rep, row, has_scene) ==
    IF Contains(<<",">>, cand_rep) /\ has_scene
    THEN LET cand_scene == Split(cand_rep, <<",">>)[1]
             cand_friendly == Split(cand_rep, <<",">>)[2]
         IN /\ Contains(cand_scene, row.scene_dn)
            /\ (Len(cand_friendly) > 0
                    => Contains(cand_friendly, row.friendly_short_name))
    ELSE Contains(cand_rep, row.friendly_short_name)

\* agg_mask, pick_represent.py:124-136: it starts as the mask of lines[0]
\* taken as a bare friendly-name pattern, and every line is OR-ed in.
AggMask(sorted_lines, res) ==
    [r \in 1..Len(res.rows) |->
        \/ Contains(sorted_lines[1], res.rows[r].friendly_short_name)
        \/ \E k \in 1..Len(sorted_lines) :
               CurMask(sorted_lines[k], res.rows[r], res.has_scene)]

\* csv[agg_mask]
\* The mutant: the mask is not applied.
SelectAllRows(rows, mask) == rows

RECURSIVE SelectRows(_, _)
SelectRows(rows, mask) ==
    IF rows = <<>> THEN <<>>
    ELSE (IF mask[1] THEN <<Head(rows)>> ELSE <<>>)
             \o SelectRows(Tail(rows), Tail(mask))

\* The filter of pick_represent.py:159-162 and 257-258.
\* The mutant: the floor of a mean is inclusive.
FilterMetricsInclusive(m) ==
    LET keep == {k \in DOMAIN m :
                    \/ Contains(<<"c", "o", "u", "n", "t">>, k) /\ m[k] > 0
                    \/ Contains(<<"m", "e", "a", "n">>, k) /\ m[k] >= MeanFloor}
    IN [k \in keep |-> m[k]]

FilterMetrics(m) ==
    LET keep == {k \in DOMAIN m :
                    \/ Contains(<<"c", "o", "u", "n", "t">>, k) /\ m[k] > 0
                    \/ Contains(<<"m", "e", "a", "n">>, k) /\ m[k] > MeanFloor}
    IN [k \in keep |-> m[k]]

\* {prefix + k: v for (k, v) in m.items()}
Prefixed(prefix, m) ==
    [pk \in {prefix \o k : k \in DOMAIN m} |->
        m[SubSeq(pk, Len(prefix) + 1, Len(pk))]]

\* {**a, **b}
Merged(a, b) ==
    [k \in (DOMAIN a) \cup (DOMAIN b) |-> IF k \in DOMAIN b THEN b[k] ELSE a[k]]

\* The note of the first notes pattern found in dn, pick_represent.py:196-200.
RECURSIVE NoteFor(_, _)
NoteFor(notes, dn) ==
    IF notes = <<>> THEN <<" ">>
    ELSE IF Contains(Head(notes).pat, dn) THEN Head(notes).note
    ELSE NoteFor(Tail(notes), dn)

\* fixed_dn, pick_represent.py:204-206; [ok |-> FALSE] when the folder name
\* has no third underscore-delimited token.
FixedDn(src_dn) ==
    IF ~Contains(<<"_", "p", "b">>, src_dn) THEN [ok |-> TRUE, dn |-> src_dn]
    ELSE IF Len(Split(src_dn, <<"_">>)) < 3 THEN [ok |-> FALSE]
    ELSE LET after_pb == Split(src_dn, <<"_", "p", "b">>)
         IN [ok |-> TRUE,
             dn |-> <<"t", "e", "s", "t", "_", "p", "b">> \o after_pb[Len(after_pb)] \o <<"_">>
                        \o Split(src_dn, <<"_">>)[3]]

\* The files of src_dp/visuals that the globs of pick_represent.py:182-186
\* find for the selected rows: '*' + friendly_short_name + '*' + suffix.
MatchingVideos(res, sel_csv, video_suffix) ==
    {fn \in res.visuals :
        \E r \in 1..Len(sel_csv), j \in 1..Len(video_suffix) :
            /\ EndsWith(fn, video_suffix[j])
            /\ Contains(sel_csv[r].friendly_short_name,
                        SubSeq(fn, 1, Len(fn) - Len(video_suffix[j])))}

\* any([x in guide_name.lower() for x in my_args.no_video_copy_for])
SkipVideoCopy(guide_name) ==
    \E j \in 1..Len(MyArgs.no_video_copy_for) :
        Contains(MyArgs.no_video_copy_for[j], Lower(guide_name))

\* The files written into dst_dp for one pair, pick_represent.py:149-193:
\* the filtered table and the metrics text replace what was there, a video
\* is copied only when dst_dp does not have it yet.
PairFiles(files, dst_dn, guide_name, res, sel_csv, weighted, unweighted) ==
    LET csv_fp == <<dst_dn, <<"z", "_", "f", "i", "l", "t", "_", "i", "t", "e", "m", "_", "r", "e", "s", "_">> \o guide_name \o s_csv>>
        txt_fp == <<dst_dn, <<"z", "_", "m", "e", "t", "r", "i", "c", "s", "_">> \o guide_name \o <<".", "t", "x", "t">>>>
        videos == IF SkipVideoCopy(guide_name) THEN {}
                  ELSE {<<dst_dn, fn>> :
                           fn \in MatchingVideos(res, sel_csv, MyArgs.video_suffix)}
    IN [fp \in (DOMAIN files) \cup {csv_fp, txt_fp} \cup videos |->
           IF fp = csv_fp THEN [kind |-> "table", rows |-> sel_csv]
           ELSE IF fp = txt_fp
           THEN [kind |-> "metrics", logs |-> res.dn, guide |-> guide_name,
                 num |-> Len(sel_csv), weighted |-> weighted,
                 unweighted |-> unweighted]
           ELSE IF fp \in DOMAIN files THEN files[fp]
           ELSE [kind |-> "video"]]

\* The head of the loop over the guides, pick_represent.py:102-112: read
\* and sort the guide; an empty guide is skipped with a warning.
SummaryGuide ==
    /\ UNCHANGED mainVars
    /\ flow = "summary"
    /\ pc = "guides"
    /\ gi < Len(actual_guide_paths)
    /\ LET cur_guide == actual_guide_paths[gi + 1] IN
       /\ lines' = Sorted(cur_guide.file_lines)
       /\ IF Len(cur_guide.file_lines) = 0
          THEN /\ log' = log \cup {"Guide seems empty? Skipping..."}
               /\ gi' = gi + 1
               /\ UNCHANGED <<pc, ti>>
          ELSE /\ pc' = "pairs"
               /\ ti' = 0
               /\ UNCHANGED <<log, gi>>
    /\ UNCHANGED <<flow, raised, args, actual_data_paths, idx, shuffle,
                   actual_guide_paths, actual_testres_paths, agg_mask, num_examples,
                   final_weighted_metrics, final_unweighted_metrics, summary,
                   out_dirs, out_files, trainVars, testVars, mergeVars>>

\* One (guide, result folder) pair, pick_represent.py:114-218.
SummaryPair ==
    /\ UNCHANGED mainVars
    /\ flow = "summary"
    /\ pc = "pairs"
    /\ ti < Len(actual_testres_paths)
    /\ LET res == actual_testres_paths[ti + 1]
           guide_name == GuideName(actual_guide_paths[gi + 1])
           mask == AggMask(lines, res)
           sel_csv == SelectRows(res.rows, mask)
           dst_dn == res.dn \o <<"_", "a", "r", "_">> \o guide_name
           weighted == FilterMetrics(res.weighted)
           unweighted == FilterMetrics(res.unweighted)
           fixed == FixedDn(res.dn)
       IN
       IF ~res.has_csv
       THEN /\ log' = log \cup {"CSV file not found! Skipping..."}
            /\ ti' = ti + 1
            /\ UNCHANGED <<pc, raised, agg_mask, num_examples, final_weighted_metrics,
                           final_unweighted_metrics, summary, out_dirs, out_files>>
       ELSE IF Len(sel_csv) = 0
       THEN /\ agg_mask' = mask
            /\ num_examples' = 0
            /\ ti' = ti + 1
            /\ UNCHANGED <<pc, raised, log, final_weighted_metrics,
                           final_unweighted_metrics, summary, out_dirs, out_files>>
       ELSE /\ agg_mask' = mask
            /\ num_examples' = Len(sel_csv)
            /\ out_dirs' = out_dirs \cup {dst_dn}
            /\ out_files' = PairFiles(out_files, dst_dn, guide_name, res, sel_csv,
                                      weighted, unweighted)
            /\ final_weighted_metrics' = weighted
            /\ final_unweighted_metrics' = unweighted
            /\ IF ~fixed.ok
               THEN /\ Raise("IndexError")
                    /\ UNCHANGED <<ti, summary>>
               ELSE /\ summary' = Append(summary,
                           [guide |-> guide_name,
                            testres_dn |-> fixed.dn,
                            notes |-> NoteFor(ModelNotes, res.dn),
                            num_examples |-> Len(sel_csv),
                            metrics |-> Merged(Prefixed(<<"w", "e", "i", "g", "h", "t", "e", "d", "_">>, weighted),
                                               Prefixed(<<"u", "n", "w", "e", "i", "g", "h", "t", "e", "d", "_">>, unweighted))])
                    /\ ti' = ti + 1
                    /\ UNCHANGED <<pc, raised>>
            /\ UNCHANGED log
    /\ UNCHANGED <<flow, args, actual_data_paths, idx, shuffle, actual_guide_paths,
                   actual_testres_paths, gi, lines, trainVars, testVars, mergeVars>>

\* The end of the loop over the result folders for one guide,
\* pick_represent.py:220.
SummaryGuideDone ==
    /\ UNCHANGED mainVars
    /\ flow = "summary"
    /\ pc = "pairs"
    /\ ti = Len(actual_testres_paths)
    /\ gi' = gi + 1
    /\ pc' = "guides"
    /\ UNCHANGED <<flow, raised, log, args, actual_data_paths, idx, shuffle,
                   actual_guide_paths, actual_testres_paths, ti, lines, agg_mask,
                   num_examples, final_weighted_metrics, final_unweighted_metrics,
                   summary, out_dirs, out_files, trainVars, testVars, mergeVars>>

\* return summary, pick_represent.py:222.
SummaryReturn ==
    /\ UNCHANGED mainVars
    /\ flow = "summary"
    /\ pc = "guides"
    /\ gi = Len(actual_guide_paths)
    /\ pc' = "constructed"
    /\ UNCHANGED <<flow, raised, log, args, actual_data_paths, idx, shuffle,
                   trainVars, testVars, sumVars, mergeVars>>

---------------------------------------------------------------------------
(* merge_cross_dataset_guides, pick_represent.py:225-290. *)

\* sep.join(parts)
RECURSIVE Join(_, _)
Join(sep, parts) ==
    IF parts = <<>> THEN <<>>
    ELSE IF Len(parts) = 1 THEN parts[1]
    ELSE parts[1] \o sep \o Join(sep, Tail(parts))

\* '_'.join(src_dn.split('_')[0:2])
ModelPat(src_dn) ==
    LET tokens == Split(src_dn, <<"_">>)
    IN Join(<<"_">>, SubSeq(tokens, 1, IF Len(tokens) < 2 THEN Len(tokens) ELSE 2))

\* The orders list(set(model_pats)) may have: a set has no fixed order.
ModelPatOrders(testres) ==
    LET pats == {ModelPat(testres[k].dn) : k \in 1..Len(testres)}
    IN {order \in [1..Cardinality(pats) -> pats] :
           \A a, b \in 1..Cardinality(pats) : a # b => order[a] # order[b]}

\* The rows of `rows` with this guide whose testres_dn contains model_pat,
\* pick_represent.py:243-246.
RECURSIVE SelRows(_, _, _)
SelRows(rows, guide_name, model_pat) ==
    IF rows = <<>> THEN <<>>
    ELSE (IF Head(rows).guide = guide_name /\ Contains(model_pat, Head(rows).testres_dn)
          THEN <<Head(rows)>> ELSE <<>>)
             \o SelRows(Tail(rows), guide_name, model_pat)

\* The skip test without the cross-dataset marker: always two rows needed.
MergeSkippedIgnoresMarker(guide_name, rows) == Len(rows) <= 1

\* The test of pick_represent.py:249 that skips a (guide, model pattern).
MergeSkipped(guide_name, rows) ==
    \/ Len(rows) = 0
    \/ (~Contains(<<"_", "m", "_">>, guide_name) /\ Len(rows) <= 1)

\* metrics.calculate_weighted_averages_dataframe(sel_rows): the metrics
\* module is outside the model; this stands for its result, one table of
\* aggregates per number of merged rows.
MergedAverages(rows) ==
    <<Metrics1, Metrics2, Metrics3>>[(Len(rows) % 3) + 1]

\* The note of the first notes pattern found in model_pat,
\* pick_represent.py:261-265.
MergeNote(model_pat) == NoteFor(ModelNotes, model_pat)

\* The videos gathered into dst_vid_dp, pick_represent.py:277-288: every
\* file with a video suffix in a folder of the output directory whose name
\* contains '_' + guide_name and model_pat (dst_vid_dp itself included).
MergedVideoFiles(dirs, files, dst_vid_dn, guide_name, model_pat) ==
    LET from_dirs == {vid_dn \in dirs \cup {dst_vid_dn} :
                         /\ Contains(<<"_">> \o guide_name, vid_dn)
                         /\ Contains(model_pat, vid_dn)}
        vid_fns == {fp[2] : fp \in {f \in DOMAIN files : f[1] \in from_dirs}}
        copied == {vid_fn \in vid_fns :
                      \E j \in 1..Len(MyArgs.video_suffix) :
                          EndsWith(Lower(vid_fn), MyArgs.video_suffix[j])}
    IN [fp \in (DOMAIN files) \cup {<<dst_vid_dn, vid_fn>> : vid_fn \in copied} |->
           IF fp \in DOMAIN files THEN files[fp] ELSE [kind |-> "video"]]

\* pick_represent.py:230-236.
MergeStart ==
    /\ UNCHANGED mainVars
    /\ flow = "summary"
    /\ pc = "constructed"
    /\ new_summary' = summary
    /\ model_pats' \in ModelPatOrders(actual_testres_paths)
    /\ mg' = 0
    /\ mp' = 0
    /\ pc' = "merge"
    /\ UNCHANGED <<flow, raised, log, args, actual_data_paths, idx, shuffle,
                   trainVars, testVars, sumVars, sel_rows, merged_metrics>>

\* One (guide, model pattern), pick_represent.py:242-288.
MergePair ==
    /\ UNCHANGED mainVars
    /\ flow = "summary"
    /\ pc = "merge"
    /\ mg < Len(actual_guide_paths)
    /\ mp < Len(model_pats)
    /\ LET guide_name == GuideName(actual_guide_paths[mg + 1])
           dst_guide_name == <<"c", "d", "_">> \o guide_name
           model_pat == model_pats[mp + 1]
           rows == SelRows(summary, guide_name, model_pat)
           merged == FilterMetrics(MergedAverages(rows))
           dst_vid_dn == dst_guide_name \o <<"_">> \o model_pat
       IN /\ sel_rows' = rows
          /\ IF MergeSkipped(guide_name, rows)
             THEN UNCHANGED <<merged_metrics, new_summary, out_dirs, out_files>>
             ELSE /\ merged_metrics' = merged
                  /\ new_summary' = Append(new_summary,
                         [guide |-> dst_guide_name,
                          testres_dn |-> model_pat,
                          notes |-> MergeNote(model_pat),
                          metrics |-> merged])
                  /\ out_dirs' = out_dirs \cup {dst_vid_dn}
                  /\ out_files' = MergedVideoFiles(out_dirs, out_files, dst_vid_dn,
                                                   guide_name, model_pat)
    /\ mp' = mp + 1
    /\ UNCHANGED <<flow, pc, raised, log, args, actual_data_paths, idx, shuffle,
                   trainVars, testVars, actual_guide_paths, actual_testres_paths,
                   gi, ti, lines, agg_mask, num_examples, final_weighted_metrics,
                   final_unweighted_metrics, summary, model_pats, mg>>

\* The end of the loop over the model patterns for one guide.
MergeGuideDone ==
    /\ UNCHANGED mainVars
    /\ flow = "summary"
    /\ pc = "merge"
    /\ mg < Len(actual_guide_paths)
    /\ mp = Len(model_pats)
    /\ mg' = mg + 1
    /\ mp' = 0
    /\ UNCHANGED <<flow, pc, raised, log, args, actual_data_paths, idx, shuffle,
                   trainVars, testVars, sumVars, new_summary, model_pats, sel_rows,
                   merged_metrics>>

\* return new_summary, pick_represent.py:290.
MergeReturn ==
    /\ UNCHANGED mainVars
    /\ flow = "summary"
    /\ pc = "merge"
    /\ mg = Len(actual_guide_paths)
    /\ pc' = "merged"
    /\ UNCHANGED <<flow, raised, log, args, actual_data_paths, idx, shuffle,
                   trainVars, testVars, sumVars, mergeVars>>

---------------------------------------------------------------------------
(* main, pick_represent.py:54-94: the export of the summary. *)

\* os.path.join(my_args.output_dir, f'_autosmr_{summary_idx}.csv')
SummaryFp(summary_idx_) == [kind |-> "autosmr", idx |-> summary_idx_]

\* The mutant: no summary file is ever found.
SummaryFileNeverExists(files, fp) == FALSE

\* os.path.exists(summary_fp)
SummaryFileExists(files, fp) == fp.idx \in DOMAIN files

\* summary_fp is None or os.path.exists(summary_fp), pick_represent.py:86.
SearchGoesOn(files, fp) ==
    IF fp = None THEN TRUE ELSE SummaryFileExists(files, fp)

\* summary_idx = -1; summary_fp = None, pick_represent.py:83-85. Without
\* write_summary main is over.
ExportStart ==
    /\ flow = "summary"
    /\ pc = "merged"
    /\ IF args.write_summary
       THEN /\ summary_idx' = -1
            /\ summary_fp' = None
            /\ pc' = "export"
       ELSE /\ pc' = "written"
            /\ UNCHANGED <<summary_idx, summary_fp>>
    /\ UNCHANGED <<flow, raised, log, args, actual_data_paths, idx, shuffle,
                   trainVars, testVars, sumVars, mergeVars, autosmr, runs>>

\* One turn of the while loop, pick_represent.py:86-88.
ExportSearch ==
    /\ flow = "summary"
    /\ pc = "export"
    /\ SearchGoesOn(autosmr, summary_fp)
    /\ summary_idx' = summary_idx + 1
    /\ summary_fp' = SummaryFp(summary_idx + 1)
    /\ UNCHANGED <<commonVars, trainVars, testVars, sumVars, mergeVars, autosmr, runs>>

\* summary.to_csv(summary_fp), pick_represent.py:91, once the loop is left.
ExportWrite ==
    /\ flow = "summary"
    /\ pc = "export"
    /\ ~SearchGoesOn(autosmr, summary_fp)
    /\ autosmr' = Put(autosmr, summary_fp.idx, new_summary)
    /\ runs' = runs + 1
    /\ pc' = "written"
    /\ UNCHANGED <<flow, raised, log, args, actual_data_paths, idx, shuffle,
                   trainVars, testVars, sumVars, mergeVars, summary_idx, summary_fp>>

\* main is run again with the same arguments on the output directory as
\* the run before left it.
Rerun ==
    /\ flow = "summary"
    /\ pc = "written"
    /\ runs < MaxRuns
    /\ pc' = "guides"
    /\ log' = {}
    /\ gi' = 0
    /\ ti' = 0
    /\ lines' = <<>>
    /\ agg_mask' = <<>>
    /\ num_examples' = 0
    /\ final_weighted_metrics' = EmptyDict
    /\ final_unweighted_metrics' = EmptyDict
    /\ summary' = <<>>
    /\ new_summary' = <<>>
    /\ model_pats' = <<>>
    /\ mg' = 0
    /\ mp' = 0
    /\ sel_rows' = <<>>
    /\ merged_metrics' = EmptyDict
    /\ summary_idx' = -1
    /\ summary_fp' = None
    /\ UNCHANGED <<flow, raised, args, actual_data_paths, idx, shuffle,
                   trainVars, testVars, actual_guide_paths, actual_testres_paths,
                   out_dirs, out_files, autosmr, runs>>

\* The summary files the output directory may hold before the first run:
\* none, or _autosmr_1.csv alone (an earlier summary whose predecessor was
\* moved away).
PriorSummaries ==
    {EmptyDict, [n \in {1} |-> <<[guide |-> <<"o", "l", "d">>, testres_dn |-> <<"t", "e", "s", "t", "_", "v", "0">>]>>]}

IdleTrain ==
    /\ train_dset_sources = EmptyDict
    /\ val_aug_dset_sources = EmptyDict
    /\ val_noaug_dset_sources = EmptyDict
    /\ dset_args_sources = EmptyDict
    /\ train_dataset = Unbound
    /\ val_aug_dataset = Unbound
    /\ val_noaug_dataset = Unbound
    /\ train_loader = Unbound
    /\ val_aug_loader = Unbound
    /\ val_noaug_loader = Unbound

IdleTest ==
    /\ test_dataset_list = <<>>
    /\ test_dset_args_sources = EmptyDict
    /\ test_dataset = Unbound
    /\ test_loader = Unbound

IdleSummary ==
    /\ gi = 0
    /\ ti = 0
    /\ lines = <<>>
    /\ agg_mask = <<>>
    /\ num_examples = 0
    /\ final_weighted_metrics = EmptyDict
    /\ final_unweighted_metrics = EmptyDict
    /\ summary = <<>>
    /\ out_dirs = {}
    /\ out_files = EmptyDict
    /\ new_summary = <<>>
    /\ model_pats = <<>>
    /\ mg = 0
    /\ mp = 0
    /\ sel_rows = <<>>
    /\ merged_metrics = EmptyDict
    /\ summary_idx = -1
    /\ summary_fp = None

\* A call of create_train_val_data_loaders(args, logger).
InitTrain ==
    /\ flow = "train"
    /\ pc = "loop"
    /\ raised = "none"
    /\ log = {}
    /\ args \in TrainArgsSet
    /\ actual_data_paths \in PathLists
    /\ idx = 0
    /\ shuffle = ~args.data_loop_only
    /\ IdleTrain
    /\ train_dset_args_sources = EmptyDict
    /\ IdleTest
    /\ actual_guide_paths = <<>>
    /\ actual_testres_paths = <<>>
    /\ IdleSummary
    /\ autosmr = EmptyDict
    /\ runs = 0

\* A call of create_test_data_loader(train_args, test_args,
\* train_dset_args_sources, logger).
InitTest ==
    /\ flow = "test"
    /\ pc = "loop"
    /\ raised = "none"
    /\ log = {}
    /\ args = TestArgsBase
    /\ actual_data_paths \in PathLists
    /\ idx = 0
    /\ shuffle = Unbound
    /\ IdleTrain
    /\ train_dset_args_sources \in TrainDsetArgsSourcesSet
    /\ IdleTest
    /\ actual_guide_paths = <<>>
    /\ actual_testres_paths = <<>>
    /\ IdleSummary
    /\ autosmr = EmptyDict
    /\ runs = 0

\* A run of main on an output directory without result folders of earlier
\* runs; summary files of earlier runs are enumerated for the runs that
\* find no guide file: construct_summary(my_args,
\* actual_guide_paths, actual_testres_paths, model_notes), then
\* merge_cross_dataset_guides on its result.
InitSummary ==
    /\ flow = "summary"
    /\ pc = "guides"
    /\ raised = "none"
    /\ log = {}
    /\ args = MyArgs
    /\ actual_data_paths = <<>>
    /\ idx = 0
    /\ shuffle = Unbound
    /\ IdleTrain
    /\ train_dset_args_sources = EmptyDict
    /\ IdleTest
    /\ actual_guide_paths \in UNION {[1..n -> GuideSet] : n \in 0..MaxGuides}
    /\ actual_testres_paths \in UNION {[1..n -> ResSet] : n \in 0..MaxTestres}
    /\ IdleSummary
    /\ autosmr \in (IF actual_guide_paths = <<>> THEN PriorSummaries ELSE {EmptyDict})
    /\ runs = 0

Init == InitTrain \/ InitTest \/ InitSummary

Next ==
    \/ TrainPath
    \/ TrainAssemble
    \/ TestPath
    \/ TestAssemble
    \/ SummaryGuide
    \/ SummaryPair
    \/ SummaryGuideDone
    \/ SummaryReturn
    \/ MergeStart
    \/ MergePair
    \/ MergeGuideDone
    \/ MergeReturn
    \/ ExportStart
    \/ ExportSearch
    \/ ExportWrite
    \/ Rerun

Spec == Init /\ [][Next]_vars

---------------------------------------------------------------------------
(* Properties of the loader assembly. *)

\* The classification as the specification words it: the first rule that
\* matches, in the order synthetic-physics, web-video, user-clip.
SpecSourceKind(path) ==
    LET lowered == Lower(path) IN
    IF Contains(<<"k", "u", "b", "c", "o", "n">>, lowered) \/ Contains(<<"k", "u", "b", "b", "e", "n", "c", "h">>, lowered)
    THEN "kubric"
    ELSE IF Contains(<<"y", "o", "u", "t", "u", "b", "e", "-", "v", "o", "s">>, lowered)
    THEN "ytvos"
    ELSE IF \/ Contains(<<"p", "l", "u", "g", "i", "n">>, lowered)
            \/ \E ext \in {<<".", "m", "p", "4">>, <<".", "a", "v", "i">>, <<".", "g", "i", "f">>, <<".", "w", "e", "b", "m">>} :
                   EndsWith(lowered, ext)
    THEN "plugin"
    ELSE "error"

\* The dataset class each source tag is built with.
DatasetClass(kind) ==
    CASE kind = "kubric" -> "KubricQueryDataset"
      [] kind = "ytvos" -> "YoutubeVOSDataset"
      [] kind = "plugin" -> "PluginVideoDataset"
      [] OTHER -> "no dataset"

\* The loop of the running loader function stopped with an exception at
\* the path it was processing.
RaisedInLoop == pc = "raised" /\ idx < Len(actual_data_paths)

\* The code after the loop has run (it returned or raised).
Assembled == pc # "loop" /\ idx = Len(actual_data_paths)

\* C1: in both loader functions every path is classified by the first
\* matching rule in the order synthetic-physics, web-video, user-clip,
\* error: a path processed without an exception was built by the builder
\* of its kind, a path is refused as unknown exactly when no rule matches
\* it, and at train time a user-clip path is the one refused as test-only.
C1_ClassificationOrder ==
    /\ flow = "train" =>
        /\ \A k \in 1..idx :
               /\ SpecSourceKind(actual_data_paths[k]) \in {"kubric", "ytvos"}
               /\ SpecSourceKind(actual_data_paths[k]) \in DOMAIN train_dset_sources
        /\ idx > 0 =>
               /\ train_dataset.kind =
                      DatasetClass(SpecSourceKind(actual_data_paths[idx]))
               /\ train_dataset.path = actual_data_paths[idx]
        /\ RaisedInLoop =>
               LET kind == SpecSourceKind(actual_data_paths[idx + 1]) IN
               /\ raised = "ValueError" <=> kind = "error"
               /\ raised = "NotImplementedError" <=> kind = "plugin"
               /\ raised = "UnboundLocalError" => kind = "kubric"
               /\ raised = "AssertionError" => kind = "ytvos"
    /\ flow = "test" =>
        /\ \A k \in 1..idx :
               /\ test_dataset_list[k].kind =
                      DatasetClass(SpecSourceKind(actual_data_paths[k]))
               /\ test_dataset_list[k].path = actual_data_paths[k]
               /\ SpecSourceKind(actual_data_paths[k]) \in DOMAIN test_dset_args_sources
        /\ RaisedInLoop =>
               LET kind == SpecSourceKind(actual_data_paths[idx + 1]) IN
               /\ raised = "ValueError" <=> kind = "error"
               /\ raised = "KeyError" => kind \in {"kubric", "ytvos", "plugin"}

\* A path with a synthetic marker in capitals, the web-video marker and a
\* video extension was built as a synthetic-physics test dataset.
C1_Witness ==
    /\ flow = "test"
    /\ idx > 0
    /\ actual_data_paths[idx] = p_KubBench_ytvos_mp4
    /\ test_dataset.kind = "KubricQueryDataset"

\* C2: at train time a user-clip path reached by the loop ends the call
\* with NotImplementedError: the loop never goes past it, no loader is
\* built, and no dataset is made of it.
C2_PluginRejectedAtTrainTime ==
    flow = "train" =>
        \A k \in 1..Len(actual_data_paths) :
            SpecSourceKind(actual_data_paths[k]) = "plugin" =>
                /\ idx < k
                /\ pc # "returned"
                /\ train_loader = Unbound
                /\ (idx = k - 1 /\ pc # "loop") =>
                       (pc = "raised" /\ raised = "NotImplementedError")
                /\ \A tag \in DOMAIN train_dset_sources :
                       train_dset_sources[tag].at # k

\* A user-clip path that follows a processed path has been refused.
C2_Witness ==
    /\ flow = "train"
    /\ idx > 0
    /\ RaisedInLoop
    /\ raised = "NotImplementedError"
    /\ SpecSourceKind(actual_data_paths[idx + 1]) = "plugin"

\* C3: once every path is classified, no training dataset is a
\* RuntimeError (as for an empty path list), one source tag gives that
\* source's dataset itself to the loader, several give a MixedDataset over
\* the tag-keyed mapping with chunk size args.batch_size.
C3_FinalTrainDataset ==
    (flow = "train" /\ Assembled) =>
        LET tags == DOMAIN train_dset_sources IN
        /\ (Len(actual_data_paths) = 0) => tags = {}
        /\ tags = {} => (pc = "raised" /\ raised = "RuntimeError"
                            /\ train_loader = Unbound)
        /\ Cardinality(tags) = 1 =>
               \A tag \in tags : train_loader.dataset = train_dset_sources[tag]
        /\ Cardinality(tags) > 1 =>
               /\ train_loader.dataset.kind = "MixedDataset"
               /\ train_loader.dataset.sources = train_dset_sources
               /\ train_loader.dataset.chunk_size = args.batch_size

\* A run has mixed two source tags.
C3_Witness ==
    /\ flow = "train"
    /\ pc = "returned"
    /\ DOMAIN train_dset_sources = {"kubric", "ytvos"}
    /\ train_loader.dataset.kind = "MixedDataset"

\* C4: the training loader never shuffles a mix of several source tags,
\* shuffles a single source tag exactly when args.data_loop_only is off,
\* and the test loader never shuffles.
C4_ShuffleFlag ==
    /\ (flow = "train" /\ train_loader # Unbound) =>
        /\ Cardinality(DOMAIN train_dset_sources) > 1 => train_loader.shuffle = FALSE
        /\ Cardinality(DOMAIN train_dset_sources) = 1 =>
               train_loader.shuffle = ~args.data_loop_only
    /\ (flow = "test" /\ test_loader # Unbound) => test_loader.shuffle = FALSE

\* A mix of two tags was built although the caller asked for shuffling.
C4_Witness ==
    /\ flow = "train"
    /\ train_loader # Unbound
    /\ Cardinality(DOMAIN train_dset_sources) > 1
    /\ ~args.data_loop_only
    /\ train_loader.shuffle = FALSE

\* C5: when validation is requested and no source produced a validation
\* dataset, the condition is logged and the call still returns the
\* training loader.
C5_MissingValidationNotFatal ==
    (/\ flow = "train"
     /\ Assembled
     /\ DOMAIN train_dset_sources # {}
     /\ DOMAIN val_aug_dset_sources = {}
     /\ (args.do_val_aug \/ args.do_val_noaug)) =>
        /\ "No validation datasets were successfully instantiated." \in log
        /\ pc = "returned"
        /\ train_loader.kind = "DataLoader"

\* The fields the specification lists as overridden at test time.
OverrideSet ==
    {"single_scene", "fake_data", "use_data_frac", "augs_2d", "augs_3d",
     "num_queries", "force_perturb_idx", "force_view_idx", "degrade",
     "annot_visible_pxl_only"}

\* A synthetic-physics test configuration was derived in this run.
KubricTestBuilt == flow = "test" /\ "kubric" \in DOMAIN test_dset_args_sources

\* C6 as stated: the synthetic-physics test configuration equals the train
\* configuration on every field outside the override set, and has no
\* field that is neither a train field nor an override.
C6_TestEqualsTrainOutsideOverrides ==
    KubricTestBuilt =>
        LET train == train_dset_args_sources["kubric"]
            test == test_dset_args_sources["kubric"]
        IN /\ \A f \in (DOMAIN train) \ OverrideSet :
                  f \in DOMAIN test /\ test[f] = train[f]
           /\ DOMAIN test \subseteq (DOMAIN train) \cup OverrideSet

\* C6, amended: as stated, but for the two compatibility fields: a
\* 'load_full_segm' of the train configuration is dropped, and
\* 'augs_version' is always present, with the train value or else 1.  The
\* override fields are all present.
C6_TestEqualsTrainUpToCompatibility ==
    KubricTestBuilt =>
        LET train == train_dset_args_sources["kubric"]
            test == test_dset_args_sources["kubric"]
        IN /\ \A f \in (DOMAIN train) \ (OverrideSet \cup {"load_full_segm"}) :
                  f \in DOMAIN test /\ test[f] = train[f]
           /\ DOMAIN test =
                  (((DOMAIN train) \ {"load_full_segm"}) \cup OverrideSet)
                      \cup {"augs_version"}
           /\ "augs_version" \notin DOMAIN train => test["augs_version"] = 1

\* A test configuration was derived from an older train configuration.
C6_Witness ==
    /\ KubricTestBuilt
    /\ "load_full_segm" \in DOMAIN train_dset_args_sources["kubric"]
    /\ "augs_version" \notin DOMAIN train_dset_args_sources["kubric"]
    /\ "frame_rate" \in DOMAIN test_dset_args_sources["kubric"]

\* The train configuration a builder starts from, by source tag.
UpstreamTag(kind) == IF kind = "ytvos" THEN "ytvos" ELSE "kubric"

\* The train configuration of `tag` is one of an older run: it is there,
\* complete but for the augmentation-version field.
OlderUpstream(tag) ==
    LET sources == UpgradeSources(train_dset_args_sources) IN
    /\ tag \in DOMAIN sources
    /\ "augs_version" \notin DOMAIN sources[tag]
    /\ {"num_frames", "frame_height", "frame_width", "query_time"}
           \subseteq DOMAIN sources[tag]

\* C7: a test-time builder given a train configuration without
\* 'augs_version' does not raise, and its test configuration has
\* augs_version = 1.
C7_MissingAugsVersionPatched ==
    flow = "test" =>
        /\ RaisedInLoop =>
               LET kind == SpecSourceKind(actual_data_paths[idx + 1]) IN
               ~(kind # "error" /\ OlderUpstream(UpstreamTag(kind)))
        /\ \A kind \in DOMAIN test_dset_args_sources :
               OlderUpstream(UpstreamTag(kind)) =>
                   test_dset_args_sources[kind]["augs_version"] = 1

---------------------------------------------------------------------------
(* Properties of the result aggregation. *)

\* construct_summary has just read the table of result folder ti for the
\* guide it is working on.
TableRead ==
    /\ flow = "summary"
    /\ pc = "pairs"
    /\ ti > 0
    /\ actual_testres_paths[ti].has_csv

\* A guide pattern matches a row, as the specification words it: 'S,N'
\* needs S in the scene and N in the friendly name, a bare pattern needs
\* to be in the friendly name.
SpecPatternMatches(pattern, row) ==
    IF Contains(<<",">>, pattern)
    THEN /\ Contains(Split(pattern, <<",">>)[1], row.scene_dn)
         /\ Contains(Split(pattern, <<",">>)[2], row.friendly_short_name)
    ELSE Contains(pattern, row.friendly_short_name)

\* C8: over a table with a scene column, a row is selected if and only if
\* at least one pattern of the guide matches it (whatever the order of the
\* patterns in the guide file).
C8_SelectedIffSomePatternMatches ==
    (TableRead /\ actual_testres_paths[ti].has_scene) =>
        LET res == actual_testres_paths[ti]
            patterns == {actual_guide_paths[gi + 1].file_lines[k] :
                            k \in 1..Len(actual_guide_paths[gi + 1].file_lines)}
        IN \A r \in 1..Len(res.rows) :
               agg_mask[r] <=> \E pattern \in patterns :
                                   SpecPatternMatches(pattern, res.rows[r])

\* The (guide, result folder) pairs construct_summary has gone through, in
\* guide-major order: pair n is guide (n-1) \div R + 1 with folder
\* (n-1) % R + 1, R the number of result folders.
PairsProcessed ==
    IF pc = "pairs"
    THEN gi * Len(actual_testres_paths) + ti
    ELSE gi * Len(actual_testres_paths)

PairGuide(n) == actual_guide_paths[((n - 1) \div Len(actual_testres_paths)) + 1]
PairRes(n) == actual_testres_paths[((n - 1) % Len(actual_testres_paths)) + 1]

\* The guide is not empty, the folder has its CSV, and the mask of the
\* guide selects a row.
PairContributes(n) ==
    /\ Len(PairGuide(n).file_lines) > 0
    /\ PairRes(n).has_csv
    /\ \E r \in 1..Len(PairRes(n).rows) :
           AggMask(Sorted(PairGuide(n).file_lines), PairRes(n))[r]

RECURSIVE ContributingPairs(_)
ContributingPairs(n) ==
    IF n = 0 THEN <<>>
    ELSE ContributingPairs(n - 1) \o (IF PairContributes(n) THEN <<n>> ELSE <<>>)

PairDstDn(n) == PairRes(n).dn \o <<"_", "a", "r", "_">> \o GuideName(PairGuide(n))

\* C9: the summary holds exactly one row for each pair gone through whose
\* guide is not empty, whose CSV exists and whose mask selects a row, in
\* guide-major order; the other pairs leave no row, no output folder and
\* no file.
C9_OneRowPerContributingPair ==
    (flow = "summary" /\ pc \in {"guides", "pairs", "constructed"}) =>
        LET pairs == ContributingPairs(PairsProcessed) IN
        /\ Len(summary) = Len(pairs)
        /\ \A k \in 1..Len(pairs) :
               /\ summary[k].guide = GuideName(PairGuide(pairs[k]))
               /\ summary[k].testres_dn = FixedDn(PairRes(pairs[k]).dn).dn
        /\ runs = 0 => out_dirs = {PairDstDn(pairs[k]) : k \in 1..Len(pairs)}
        /\ \A fp \in DOMAIN out_files : fp[1] \in out_dirs

\* construct_summary went through two guides and two result folders; both
\* guides contributed rows and a pair without a selected row was skipped.
C9_Witness ==
    /\ flow = "summary"
    /\ pc = "constructed"
    /\ Len(actual_guide_paths) = 2
    /\ Len(actual_testres_paths) = 2
    /\ Len(summary) >= 2
    /\ summary[1].guide # summary[Len(summary)].guide
    /\ \E n \in 1..4 : PairRes(n).has_csv /\ ~PairContributes(n)

\* An aggregate is kept, as the specification words it.
SpecKeeps(name, value) ==
    \/ Contains(<<"c", "o", "u", "n", "t">>, name) /\ value > 0
    \/ Contains(<<"m", "e", "a", "n">>, name) /\ value > -100

SpecFiltered(raw, filtered) ==
    /\ DOMAIN filtered \subseteq DOMAIN raw
    /\ \A name \in DOMAIN raw :
           /\ name \in DOMAIN filtered <=> SpecKeeps(name, raw[name])
           /\ name \in DOMAIN filtered => filtered[name] = raw[name]

\* merge_cross_dataset_guides has just merged the rows of a (guide, model
\* pattern).
JustMerged ==
    /\ flow = "summary"
    /\ pc = "merge"
    /\ mp > 0
    /\ ~MergeSkipped(GuideName(actual_guide_paths[mg + 1]), sel_rows)

\* C10: of the weighted, the unweighted and the merged aggregates, an
\* entry is kept if and only if its name contains 'count' and its value is
\* above 0, or its name contains 'mean' and its value is above -1.0; only
\* kept entries reach the summary row.
C10_AggregateFilter ==
    /\ (TableRead /\ num_examples > 0) =>
           /\ SpecFiltered(actual_testres_paths[ti].weighted, final_weighted_metrics)
           /\ SpecFiltered(actual_testres_paths[ti].unweighted,
                           final_unweighted_metrics)
           /\ summary[Len(summary)].metrics =
                  Merged(Prefixed(<<"w", "e", "i", "g", "h", "t", "e", "d", "_">>, final_weighted_metrics),
                         Prefixed(<<"u", "n", "w", "e", "i", "g", "h", "t", "e", "d", "_">>, final_unweighted_metrics))
    /\ JustMerged =>
           /\ SpecFiltered(MergedAverages(sel_rows), merged_metrics)
           /\ new_summary[Len(new_summary)].metrics = merged_metrics

\* count_valid = 0 and mean_iou = -1.0 were dropped from the weighted
\* aggregates of a pair and mean_count = -0.5 was kept, and mean_iou =
\* -0.99 was kept and a count of -1 and std_iou dropped from the unweighted.
C10_Witness ==
    /\ TableRead
    /\ num_examples > 0
    /\ actual_testres_paths[ti].weighted = Metrics2
    /\ DOMAIN final_weighted_metrics = {m_mean_count}
    /\ actual_testres_paths[ti].unweighted = Metrics3
    /\ DOMAIN final_unweighted_metrics = {m_mean_iou}

---------------------------------------------------------------------------
(* Properties of the cross-dataset merge. *)

\* The (guide, model pattern) pairs merge_cross_dataset_guides has gone
\* through: every pattern of the guides before mg, and the patterns before
\* mp of guide mg.
MergeProcessed ==
    {km \in (1..Len(actual_guide_paths)) \X (1..Len(model_pats)) :
        \/ km[1] <= mg
        \/ (km[1] = mg + 1 /\ km[2] <= mp)}

\* The rows of `rows` whose guide and testres_dn are these.
RECURSIVE RowsOf(_, _, _)
RowsOf(rows, guide, testres_dn) ==
    IF rows = <<>> THEN <<>>
    ELSE (IF Head(rows).guide = guide /\ Head(rows).testres_dn = testres_dn
          THEN <<Head(rows)>> ELSE <<>>)
             \o RowsOf(Tail(rows), guide, testres_dn)

\* The rows merge_cross_dataset_guides has appended.
MergedRows == SubSeq(new_summary, Len(summary) + 1, Len(new_summary))

\* A merged row is due, as the specification words it: one matching row
\* with the marker '_m_' in the guide name, two without.
SpecMergeDue(guide_name, matching) ==
    IF Contains(<<"_", "m", "_">>, guide_name) THEN matching >= 1 ELSE matching >= 2

\* C11: every (guide, model pattern) gone through has appended one merged
\* row if the guide name has '_m_' and at least 1 summary row matches, or
\* at least 2 rows match; otherwise it has appended no row and made no
\* merged folder. The rows of the summary are kept, unchanged, in front of
\* the merged rows.
C11_MergeThreshold ==
    (flow = "summary" /\ pc \in {"merge", "merged"}) =>
        /\ Len(new_summary) >= Len(summary)
        /\ SubSeq(new_summary, 1, Len(summary)) = summary
        /\ \A km \in MergeProcessed :
               LET guide_name == GuideName(actual_guide_paths[km[1]])
                   model_pat == model_pats[km[2]]
                   dst_guide_name == <<"c", "d", "_">> \o guide_name
                   matching == Len(SelRows(summary, guide_name, model_pat))
                   entries == Cardinality({e \in MergeProcessed :
                                  /\ GuideName(actual_guide_paths[e[1]]) = guide_name
                                  /\ model_pats[e[2]] = model_pat})
                   produced == Len(RowsOf(MergedRows, dst_guide_name, model_pat))
               IN IF SpecMergeDue(guide_name, matching)
                  THEN /\ produced = entries
                       /\ (dst_guide_name \o <<"_">> \o model_pat) \in out_dirs
                  ELSE /\ produced = 0
                       /\ (dst_guide_name \o <<"_">> \o model_pat) \notin out_dirs

\* The merge is over: a guide without '_m_' had exactly one matching row
\* and gave no merged row, and a guide with '_m_' had exactly one matching
\* row and gave one.
C11_Witness ==
    /\ flow = "summary"
    /\ pc = "merged"
    /\ \E k \in 1..Len(actual_guide_paths), j \in 1..Len(model_pats) :
           /\ ~Contains(<<"_", "m", "_">>, GuideName(actual_guide_paths[k]))
           /\ Len(SelRows(summary, GuideName(actual_guide_paths[k]), model_pats[j])) = 1
    /\ \E k \in 1..Len(actual_guide_paths), j \in 1..Len(model_pats) :
           /\ Contains(<<"_", "m", "_">>, GuideName(actual_guide_paths[k]))
           /\ Len(SelRows(summary, GuideName(actual_guide_paths[k]), model_pats[j])) = 1
           /\ Len(RowsOf(MergedRows, <<"c", "d", "_">> \o GuideName(actual_guide_paths[k]),
                         model_pats[j])) = 1

---------------------------------------------------------------------------
(* Properties of the export of the summary. *)

\* The smallest n >= 0 for which the files hold no _autosmr_<n>.csv.
SmallestFree(files) ==
    CHOOSE n \in 0..Cardinality(DOMAIN files) :
        /\ n \notin DOMAIN files
        /\ \A j \in 0..(n - 1) : j \in DOMAIN files

\* C12: with write_summary set, main writes the summary to
\* _autosmr_<n>.csv, n the smallest non-negative integer without such a
\* file; no step of a run overwrites or deletes a summary file that was
\* there, a run adds exactly one summary file, and the search for n ends:
\* every turn raises the index by one and the index never passes the
\* number of summary files, so the turns are at most that number plus one.
C12_SummaryFileAdded ==
      [][/\ \A n \in DOMAIN autosmr :
                 n \in DOMAIN autosmr' /\ autosmr'[n] = autosmr[n]
          /\ IF pc = "export" /\ pc' = "written"
             THEN /\ args.write_summary
                  /\ DOMAIN autosmr' = DOMAIN autosmr \cup {SmallestFree(autosmr)}
                  /\ SmallestFree(autosmr) \notin DOMAIN autosmr
                  /\ autosmr'[SmallestFree(autosmr)] = new_summary
                  /\ runs' = runs + 1
             ELSE autosmr' = autosmr /\ runs' = runs
          /\ (pc = "export" /\ pc' = "export") =>
                 /\ summary_idx' = summary_idx + 1
                 /\ summary_idx' <= Cardinality(DOMAIN autosmr)]_<<pc, mainVars>>

\* Two runs on an output directory that held _autosmr_1.csv: the first
\* wrote _autosmr_0.csv, the second passed over both and wrote
\* _autosmr_2.csv, and the earlier file is as it was.
C12_Witness ==
    /\ flow = "summary"
    /\ pc = "written"
    /\ runs = 2
    /\ summary_idx = 2
    /\ DOMAIN autosmr = {0, 1, 2}
    /\ autosmr[1] \in {p[1] : p \in PriorSummaries \ {EmptyDict}}
    /\ autosmr[0] = new_summary
    /\ autosmr[2] = new_summary

---------------------------------------------------------------------------
(* Properties of the test loader assembly. *)

\* Dataset d is the test dataset of path k of the list.
TestDatasetOfPath(d, k) ==
    /\ d.kind = DatasetClass(SpecSourceKind(actual_data_paths[k]))
    /\ d.path = actual_data_paths[k]
    /\ d.phase = "test"
    /\ d.at = k

\* C13: create_test_data_loader builds one test dataset per data path, in
\* the order of the path list; when it returns, the loader reads the
\* dataset itself if there is one path, and with several paths the
\* concatenation of the datasets of all the paths in path order.
C13_TestDatasetsConcatenated ==
    (flow = "test" /\ pc \in {"loop", "returned"}) =>
        /\ Len(test_dataset_list) = idx
        /\ \A k \in 1..idx : TestDatasetOfPath(test_dataset_list[k], k)
        /\ pc = "returned" =>
               /\ idx = Len(actual_data_paths)
               /\ IF Len(actual_data_paths) = 1
                  THEN TestDatasetOfPath(test_loader.dataset, 1)
                  ELSE /\ test_loader.dataset.kind = "ConcatDataset"
                       /\ Len(test_loader.dataset.datasets) = Len(actual_data_paths)
                       /\ \A k \in 1..Len(actual_data_paths) :
                              TestDatasetOfPath(test_loader.dataset.datasets[k], k)

\* The loader was returned for two different paths of the same source tag.
C13_Witness ==
    /\ flow = "test"
    /\ pc = "returned"
    /\ Len(actual_data_paths) = 2
    /\ actual_data_paths[1] # actual_data_paths[2]
    /\ SpecSourceKind(actual_data_paths[1]) = SpecSourceKind(actual_data_paths[2])
    /\ test_loader.dataset.kind = "ConcatDataset"

---------------------------------------------------------------------------
(* Properties of the rows a merge aggregates. *)

\* The folder name has model_pat as its first two tokens between '_'.
HasTwoTokenPrefix(dn, model_pat) ==
    LET tokens == Split(dn, <<"_">>)
    IN /\ Len(tokens) >= 2
       /\ tokens[1] \o <<"_">> \o tokens[2] = model_pat

\* The rows of the summary, each from the pair that gave it (C9), whose
\* guide is guide_name and whose result folder has the prefix model_pat.
RECURSIVE SpecMergeRows(_, _, _)
SpecMergeRows(k, guide_name, model_pat) ==
    IF k = 0 THEN <<>>
    ELSE LET pairs == ContributingPairs(Len(actual_guide_paths) * Len(actual_testres_paths))
         IN SpecMergeRows(k - 1, guide_name, model_pat)
                \o (IF /\ summary[k].guide = guide_name
                       /\ HasTwoTokenPrefix(PairRes(pairs[k]).dn, model_pat)
                    THEN <<summary[k]>> ELSE <<>>)

\* C14: the rows aggregated for (model pattern P, guide G) are exactly the
\* summary rows of guide G whose result folder name has P as its first two
\* tokens between underscores: no row of a folder with another prefix is
\* among them and no row of a folder with prefix P is left out.
C14_MergedRowsHavePrefix ==
    (flow = "summary" /\ pc = "merge" /\ mp > 0) =>
        sel_rows = SpecMergeRows(Len(summary), GuideName(actual_guide_paths[mg + 1]),
                                 model_pats[mp])

---------------------------------------------------------------------------
(* Properties of the training collections. *)

\* The paths gone through that classify to this source tag.
PathsOfTag(tag) == {k \in 1..idx : SpecSourceKind(actual_data_paths[k]) = tag}

\* The last of them.
LastOfTag(tag) == CHOOSE k \in PathsOfTag(tag) : \A j \in PathsOfTag(tag) : j <= k

\* Dataset d was built from path k of the list for this phase.
TrainDatasetOfPath(d, k, phase) ==
    /\ d.kind = DatasetClass(SpecSourceKind(actual_data_paths[k]))
    /\ d.path = actual_data_paths[k]
    /\ d.phase = phase
    /\ d.at = k

\* C15: after any number of paths the training and configuration
\* collections hold one entry for each source tag met, that of the last path
\* of the tag, so at most two entries; the validation collections hold the
\* entry of the last synthetic-physics path and nothing else, so at most one
\* entry; and with a single tag the loader reads the dataset stored in the
\* collection.
C15_OneEntryPerSourceTag ==
    flow = "train" =>
        /\ DOMAIN train_dset_sources = {tag \in {"kubric", "ytvos"} : PathsOfTag(tag) # {}}
        /\ DOMAIN dset_args_sources = DOMAIN train_dset_sources
        /\ DOMAIN val_aug_dset_sources = DOMAIN train_dset_sources \cap {"kubric"}
        /\ DOMAIN val_noaug_dset_sources = DOMAIN val_aug_dset_sources
        /\ Cardinality(DOMAIN train_dset_sources) <= 2
        /\ Cardinality(DOMAIN val_aug_dset_sources) <= 1
        /\ Cardinality(DOMAIN val_noaug_dset_sources) <= 1
        /\ \A tag \in DOMAIN train_dset_sources :
               /\ TrainDatasetOfPath(train_dset_sources[tag], LastOfTag(tag), "train")
               /\ dset_args_sources[tag] = train_dset_sources[tag].dset_args
        /\ \A tag \in DOMAIN val_aug_dset_sources :
               /\ args.do_val_aug =>
                      TrainDatasetOfPath(val_aug_dset_sources[tag], LastOfTag(tag), "val_aug")
               /\ ~args.do_val_aug => val_aug_dset_sources[tag] = None
               /\ args.do_val_noaug =>
                      TrainDatasetOfPath(val_noaug_dset_sources[tag], LastOfTag(tag),
                                         "val_noaug")
               /\ ~args.do_val_noaug => val_noaug_dset_sources[tag] = None
        /\ (pc = "returned" /\ Cardinality(DOMAIN train_dset_sources) = 1) =>
               /\ \A tag \in DOMAIN train_dset_sources :
                      train_loader.dataset = train_dset_sources[tag]
               /\ \A tag \in DOMAIN val_aug_dset_sources :
                      /\ args.do_val_aug =>
                             val_aug_loader.dataset = val_aug_dset_sources[tag]
                      /\ args.do_val_noaug =>
                             val_noaug_loader.dataset = val_noaug_dset_sources[tag]

\* Two different synthetic-physics paths were gone through and the loaders
\* returned: training and validation read the datasets of the second.
C15_Witness ==
    /\ flow = "train"
    /\ pc = "returned"
    /\ Len(actual_data_paths) = 2
    /\ actual_data_paths[1] # actual_data_paths[2]
    /\ PathsOfTag("kubric") = {1, 2}
    /\ args.do_val_aug
    /\ train_loader.dataset.at = 2
    /\ val_aug_loader.dataset.at = 2

====
